---------------------------- MODULE Spec2Model ----------------------------
(***************************************************************************)
(* Model of the entity-resolution engine of match_algo.py: blocking on     *)
(* zip_cleaned, weighted pairwise scoring (calculate_match_score), the     *)
(* acceptance threshold, the confidence tiers, and the top-level run       *)
(* generate_matches (identify_matches, stitch_identified_data,             *)
(* print_match_report).                                                    *)
(*                                                                         *)
(* Numbers.  A weight is held as weight * 10^4 (0.25 -> 2500, 0.2381 ->    *)
(* 2381), a similarity ratio as fuzz.ratio returns it (an integer 0..100), *)
(* and a score in hundredths (60 -> 6000, 89.99 -> 8999), so that          *)
(* round(total_score * 100, 2) is Round(Sum(weight * ratio) / 100).        *)
(*                                                                         *)
(* Values.  A cell of a DataFrame is a Python string, None, or NaN (a      *)
(* float: what pandas holds for a missing cell).  A string is a sequence   *)
(* of one-character strings.                                               *)
(***************************************************************************)
EXTENDS Integers, Sequences, FiniteSets, TLC

VARIABLES
    module_globals,    \* match_algo's module-level names: the weight tables, threshold, tiers
    raw_in,            \* the records of the file a loader reads: base fields, country_code, zip
    shopify_in,        \* identify_matches argument: the first source, a sequence of rows
    amazon_in,         \* identify_matches argument: the second source
    no_name,           \* identify_matches argument
    threshold,         \* identify_matches argument (hundredths)
    confidence_levels, \* identify_matches argument: sequence of <<level, min_score>>
    shopify,           \* local of identify_matches: shopify_in[shop_cols]
    amazon,            \* local of identify_matches: amazon_in[amazon_cols]
    zip_iter,          \* the order in which the set zip_codes is iterated
    n,                 \* number of pairs of the nested loops already processed
    score,             \* local of identify_matches: last value calculate_match_score returned
    confidence_level,  \* local of identify_matches: "unbound" until first assigned
    matches,           \* local of identify_matches: the list of appended dicts
    final_df,          \* what stitch_identified_data returned
    pc,                \* position of the top-level run
    row_a,             \* calculate_match_score called directly: first row
    row_b,             \* calculate_match_score called directly: second row
    calls              \* results of the direct calls, by weight table

vars == <<module_globals, raw_in, shopify_in, amazon_in, no_name, threshold, confidence_levels,
          shopify, amazon, zip_iter, n,
          score, confidence_level, matches, final_df, pc, row_a, row_b, calls>>

---------------------------------------------------------------------------
(* Python values *)

None == [kind |-> "None", s |-> <<>>]
NaN == [kind |-> "NaN", s |-> <<>>]
Str(chars) == [kind |-> "str", s |-> chars]
Empty == Str(<<>>)

\* Python's == on two cells: NaN is unequal to everything, itself included.
PyEq(x, y) == x.kind # "NaN" /\ y.kind # "NaN" /\ x = y

\* Result of a call that may raise.
Ok(v) == [ok |-> TRUE, v |-> v]
Raised == [ok |-> FALSE, v |-> 0]

Max(x, y) == IF x >= y THEN x ELSE y

\* Python 3 round(): half to even, on the rational num / den (den > 0, num >= 0).
RoundHalfEven(num, den) ==
    LET q == num \div den
        r == num % den
    IN  IF 2 * r > den THEN q + 1
        ELSE IF 2 * r < den THEN q
        ELSE IF q % 2 = 0 THEN q ELSE q + 1

\* Number of matching characters of two strings (longest common subsequence):
\* the M of the ratio 2*M/T behind fuzz.ratio.
RECURSIVE Lcs(_, _)
Lcs(a, b) ==
    IF a = <<>> \/ b = <<>> THEN 0
    ELSE IF Head(a) = Head(b) THEN 1 + Lcs(Tail(a), Tail(b))
    ELSE Max(Lcs(Tail(a), b), Lcs(a, Tail(b)))

\* fuzz.ratio(s1, s2) of fuzzywuzzy: 0 when either is None, 100 when they are
\* equal (two empty strings included), TypeError on len() of a non-string,
\* 0 when either is empty, else int(round(100 * 2*M/T)).
fuzz_ratio(s1, s2) ==
    IF s1.kind = "None" \/ s2.kind = "None" THEN Ok(0)
    ELSE IF PyEq(s1, s2) THEN Ok(100)
    ELSE IF s1.kind = "NaN" \/ s2.kind = "NaN" THEN Raised
    ELSE IF Len(s1.s) = 0 \/ Len(s2.s) = 0 THEN Ok(0)
    ELSE Ok(RoundHalfEven(200 * Lcs(s1.s, s2.s), Len(s1.s) + Len(s2.s)))

---------------------------------------------------------------------------
(* Configuration of match_algo.py *)

\* default_weights with last_name at 0.35: the weights sum to 1.04.
default_weights_sum_above_one ==
    << <<"last_name", 3500>>, <<"unit_number", 1800>>, <<"street_name", 1800>>,
       <<"house_number", 1500>>, <<"state", 500>>, <<"first_name", 400>>,
       <<"city", 300>>, <<"street_type", 300>>, <<"unit_type", 300>> >>

\* A weight table is the dict in insertion order: <<field, weight * 10^4>>.
default_weights ==
    << <<"last_name", 2500>>, <<"unit_number", 1800>>, <<"street_name", 1800>>,
       <<"house_number", 1500>>, <<"state", 500>>, <<"first_name", 400>>,
       <<"city", 300>>, <<"street_type", 300>>, <<"unit_type", 300>> >>

no_name_weights ==
    << <<"unit_number", 2381>>, <<"street_name", 2381>>, <<"house_number", 1905>>,
       <<"state", 476>>, <<"city", 476>>, <<"street_type", 476>>,
       <<"unit_type", 476>> >>

potential_match_score_threshold == 6000

confidence_levels_default ==
    << <<"near-exact", 9000>>, <<"high", 8000>>, <<"medium", 7000>>,
       <<"low", potential_match_score_threshold>> >>

\* The module-level names as the import leaves them.
module_globals_at_import ==
    [default_weights |-> default_weights, no_name_weights |-> no_name_weights,
     potential_match_score_threshold |-> potential_match_score_threshold,
     confidence_levels |-> confidence_levels_default]

exact_match_fields == {"street_type", "state", "unit_type"}

matchable_columns ==
    <<"first_name", "middle_name", "middle_initial", "last_name", "full_name",
      "city", "state", "state_code", "country", "country_code", "zip",
      "zip_cleaned", "address_number", "street_name", "street_type",
      "unit_type", "unit_number">>

---------------------------------------------------------------------------
(* calculate_match_score *)

Range(seq) == {seq[i] : i \in 1..Len(seq)}
Keys(weights) == {weights[i][1] : i \in 1..Len(weights)}

\* pandas Series.get(key, ''): the cell, or '' when the row has no such label.
Get(row, key) == IF key \in DOMAIN row THEN row[key] ELSE Empty

\* Lines 133-138 without the exact-match branch: fuzz.ratio on every field.
FieldScoreAllFuzzy(field, s, a) == fuzz_ratio(s, a)

\* One field's similarity, 0..100: exact equality or fuzz.ratio.
FieldScore(field, s, a) ==
    IF field \in exact_match_fields
    THEN Ok(IF PyEq(s, a) THEN 100 ELSE 0)
    ELSE fuzz_ratio(s, a)

\* The loop of lines 129-141: sum of weight * score over weights.keys(),
\* from position i on; Raised as soon as one fuzz.ratio raises.
RECURSIVE WeightedSum(_, _, _, _)
WeightedSum(shopify_row, amazon_row, weights, i) ==
    IF i > Len(weights) THEN Ok(0)
    ELSE LET field == weights[i][1]
             fs == FieldScore(field, Get(shopify_row, field), Get(amazon_row, field))
             rest == WeightedSum(shopify_row, amazon_row, weights, i + 1)
         IN  IF ~fs.ok \/ ~rest.ok THEN Raised
             ELSE Ok(weights[i][2] * fs.v + rest.v)

\* The veto of lines 143-146 reads s_fields['house_number'], a key of the
\* dicts built from weights.keys().
HouseNumScore(shopify_row, amazon_row, weights) ==
    IF "house_number" \notin Keys(weights) THEN Raised
    ELSE fuzz_ratio(Get(shopify_row, "house_number"), Get(amazon_row, "house_number"))

calculate_match_score(shopify_row, amazon_row, weights) ==
    LET total == WeightedSum(shopify_row, amazon_row, weights, 1)
        house == HouseNumScore(shopify_row, amazon_row, weights)
    IN  IF ~total.ok \/ ~house.ok THEN Raised
        ELSE IF house.v < 70 THEN Ok(0)
        ELSE Ok(RoundHalfEven(total.v, 100))

---------------------------------------------------------------------------
(* Inputs: cell values and rows *)

AB == Str(<<"A", "B">>)
AC == Str(<<"A", "C">>)
A1 == Str(<<"A">>)
ACCC == Str(<<"A", "C", "C", "C">>)
CC == Str(<<"C", "C">>)
N12 == Str(<<"1", "2">>)
N19 == Str(<<"1", "9">>)
N99 == Str(<<"9", "9">>)
Z1 == Str(<<"9", "0", "2", "1", "0">>)
Z2 == Str(<<"1", "0", "0", "0", "1">>)

\* A row of an input DataFrame: every matchable column, '' unless given.
Row(given) ==
    [c \in Range(matchable_columns) |-> IF c \in DOMAIN given THEN given[c] ELSE Empty]

\* The reference record: every scored field filled, zip_cleaned Z1.
RefFields ==
    [first_name |-> AB, last_name |-> AB, city |-> AB, state |-> AB,
     address_number |-> N12, street_name |-> AB, street_type |-> AB,
     unit_type |-> AB, unit_number |-> AB, zip_cleaned |-> Z1]

\* Rows of the first source: the reference record, a second record of the
\* same block, and the reference record with an empty, a None and another
\* zip_cleaned.
ShopifyPool ==
    << Row(RefFields),
       Row([RefFields EXCEPT !.first_name = Empty]),
       Row([RefFields EXCEPT !.zip_cleaned = Empty]),
       Row([RefFields EXCEPT !.zip_cleaned = None]),
       Row([RefFields EXCEPT !.zip_cleaned = Z2]) >>

\* Rows of the second source, by what they are against the reference record
\* under default_weights: identical (94.00); 58.00; a NaN cell; first name
\* absent (90.00); 89.99; 76.00; 60.01; 60.00; house number 99 against 12;
\* and identical records with an empty, a None and another zip_cleaned.
AmazonPool ==
    << Row(RefFields),
       Row([RefFields EXCEPT !.first_name = Empty, !.city = CC, !.street_name = CC,
                             !.state = AC, !.street_type = AC, !.unit_type = AC]),
       Row([RefFields EXCEPT !.street_name = NaN]),
       Row([RefFields EXCEPT !.first_name = Empty]),
       Row([RefFields EXCEPT !.first_name = AC, !.city = ACCC]),
       Row([RefFields EXCEPT !.unit_number = Empty]),
       Row([RefFields EXCEPT !.first_name = Empty, !.city = A1, !.street_name = CC,
                             !.state = AC, !.street_type = AC, !.unit_type = AC]),
       Row([RefFields EXCEPT !.first_name = AC, !.city = CC, !.street_name = CC,
                             !.state = AC, !.street_type = AC, !.unit_type = AC]),
       Row([RefFields EXCEPT !.address_number = N99]),
       Row([RefFields EXCEPT !.zip_cleaned = Empty]),
       Row([RefFields EXCEPT !.zip_cleaned = None]),
       Row([RefFields EXCEPT !.zip_cleaned = Z2]) >>

MaxRowsShopify == 2
MaxRowsAmazon == 2

\* Increasing sequence of the members of a set of row positions.
RECURSIVE Ascending(_)
Ascending(S) ==
    IF S = {} THEN <<>>
    ELSE LET m == CHOOSE x \in S : \A y \in S : x <= y
         IN  <<m>> \o Ascending(S \ {m})

\* The sources of 1..max distinct records of a pool, in pool order.
Tables(pool, max) ==
    { [k \in 1..Cardinality(S) |-> pool[Ascending(S)[k]]] :
        S \in {T \in SUBSET (1..Len(pool)) : Cardinality(T) \in 1..max} }

\* A source as loaded: the rows with their record ids, unique within the source.
WithIds(rows, idcol, base) ==
    [i \in 1..Len(rows) |->
        [c \in DOMAIN rows[i] \cup {idcol} |->
            IF c = idcol THEN base + i ELSE rows[i][c]]]

ShopifyTables == {WithIds(t, "shopify_id", 100) : t \in Tables(ShopifyPool, MaxRowsShopify)}
AmazonTables == {WithIds(t, "amazon_id", 200) : t \in Tables(AmazonPool, MaxRowsAmazon)}

\* Acceptance thresholds passed to identify_matches: the default, and one
\* below the lowest tier minimum.
Thresholds == {potential_match_score_threshold, 5000}

---------------------------------------------------------------------------
(* identify_matches *)

name_fields == {"first_name", "middle_name", "middle_initial", "last_name", "full_name"}

\* Lines 56-60: the matchable columns kept for scoring.
filtered_columns(nn) ==
    IF nn THEN Range(matchable_columns) \ name_fields ELSE Range(matchable_columns)

\* Lines 62-66: df[[id] + filtered_columns].
Project(table, idcol, nn) ==
    [i \in 1..Len(table) |-> [c \in {idcol} \cup filtered_columns(nn) |-> table[i][c]]]

\* Line 69: the zip_cleaned values present in both sources (a Python set:
\* '' and None are members like any other value).
zip_codes(shop, amzn) ==
    {shop[i]["zip_cleaned"] : i \in 1..Len(shop)}
        \cap {amzn[j]["zip_cleaned"] : j \in 1..Len(amzn)}

\* The orders in which a set can be iterated.
Perms(S) ==
    {f \in [1..Cardinality(S) -> S] : \A i, j \in 1..Cardinality(S) : f[i] = f[j] => i = j}

\* pandas Series == scalar, per cell: never true against None or NaN.
PdEq(cell, scalar) == scalar.kind = "str" /\ cell = scalar

\* Lines 76-77: positions of the rows of a block, in table order.
Subset(table, zip_code) ==
    Ascending({i \in 1..Len(table) : PdEq(table[i]["zip_cleaned"], zip_code)})

\* Lines 79-80 pairing the rows of a block by position, not as a cross product.
BlockPairsByPosition(zip_code) ==
    LET sa == Subset(shopify, zip_code)
        sb == Subset(amazon, zip_code)
        m == IF Len(sa) <= Len(sb) THEN Len(sa) ELSE Len(sb)
    IN  [k \in 1..m |-> <<sa[k], sb[k]>>]

\* Lines 79-80: the pairs <<shopify position, amazon position>> of one block,
\* in the order of the nested loops.
BlockPairs(zip_code) ==
    LET sa == Subset(shopify, zip_code)
        sb == Subset(amazon, zip_code)
    IN  [k \in 1..(Len(sa) * Len(sb)) |->
            <<sa[((k - 1) \div Len(sb)) + 1], sb[((k - 1) % Len(sb)) + 1]>>]

\* Line 75 with lines 79-80: every pair the loops visit, in order.
RECURSIVE Schedule(_)
Schedule(order) ==
    IF order = <<>> THEN <<>>
    ELSE BlockPairs(Head(order)) \o Schedule(Tail(order))

\* Lines 82-85 with default_weights on both branches.
SelectedWeightsDefault(nn) == module_globals.default_weights

\* Lines 82-85: the weight table the flag selects.
SelectedWeights(nn) ==
    IF nn THEN module_globals.no_name_weights ELSE module_globals.default_weights

PairScore(p) == calculate_match_score(shopify[p[1]], amazon[p[2]], SelectedWeights(no_name))

\* Lines 87-90 with ">" for ">=".
FirstLevelStrict(levels, sc) ==
    LET hits == {i \in 1..Len(levels) : sc > levels[i][2]}
    IN  IF hits = {} THEN "none"
        ELSE levels[CHOOSE i \in hits : \A j \in hits : i <= j][1]

\* Lines 87-90: the first level, in dict order, whose minimum the score
\* reaches; "none" when the loop ends without a break.
FirstLevel(levels, sc) ==
    LET hits == {i \in 1..Len(levels) : sc >= levels[i][2]}
    IN  IF hits = {} THEN "none"
        ELSE levels[CHOOSE i \in hits : \A j \in hits : i <= j][1]

\* Line 86 with ">=" for ">".
AcceptsAtThreshold(sc, thr) == sc >= thr

\* Line 86.
Accepts(sc, thr) == sc > thr

\* 'score': None, among scores held in hundredths.
null_score == -1

\* The dict appended at lines 91-96.
Candidate(p, sc, level) ==
    [shopify_id |-> shopify[p[1]]["shopify_id"], amazon_id |-> amazon[p[2]]["amazon_id"],
     score |-> sc, confidence_level |-> level]

\* The dict appended at lines 99-104.
NullCandidate(p) ==
    [shopify_id |-> shopify[p[1]]["shopify_id"], amazon_id |-> amazon[p[2]]["amazon_id"],
     score |-> null_score, confidence_level |-> "null"]

\* Lines 62-66 selecting the columns in place: the inputs themselves are
\* cut down to the scored columns.
IdentifyStartInPlace ==
    /\ pc = "identify"
    /\ shopify' = Project(shopify_in, "shopify_id", no_name)
    /\ amazon' = Project(amazon_in, "amazon_id", no_name)
    /\ shopify_in' = shopify'
    /\ amazon_in' = amazon'
    /\ zip_iter' \in Perms(zip_codes(shopify', amazon'))
    /\ n' = 0
    /\ matches' = <<>>
    /\ pc' = "loop"
    /\ UNCHANGED <<module_globals, raw_in, no_name, threshold, confidence_levels,
                   score, confidence_level, final_df, row_a, row_b, calls>>

\* Lines 56-73: up to the first iteration.
IdentifyStart ==
    /\ pc = "identify"
    /\ shopify' = Project(shopify_in, "shopify_id", no_name)
    /\ amazon' = Project(amazon_in, "amazon_id", no_name)
    /\ zip_iter' \in Perms(zip_codes(shopify', amazon'))
    /\ n' = 0
    /\ matches' = <<>>
    /\ pc' = "loop"
    /\ UNCHANGED <<module_globals, raw_in, shopify_in, amazon_in,
                   no_name, threshold, confidence_levels,
                   score, confidence_level, final_df, row_a, row_b, calls>>

\* The except branch around the loops instead of inside them: the first
\* failure ends the batch.
PairRaisesAborts ==
    /\ pc = "loop" /\ n < Len(Schedule(zip_iter))
    /\ LET p == Schedule(zip_iter)[n + 1]
       IN  /\ ~PairScore(p).ok
           /\ matches' = Append(matches, NullCandidate(p))
    /\ n' = n + 1
    /\ pc' = "stitch"
    /\ UNCHANGED <<module_globals, raw_in, shopify_in, amazon_in,
                   no_name, threshold, confidence_levels,
                   shopify, amazon, zip_iter, score, confidence_level, final_df,
                   row_a, row_b, calls>>

\* One pass of the body of the nested loops, lines 81-104, on the next pair.
\* calculate_match_score raises: the except branch appends the null dict.
PairRaises ==
    /\ pc = "loop" /\ n < Len(Schedule(zip_iter))
    /\ LET p == Schedule(zip_iter)[n + 1]
       IN  /\ ~PairScore(p).ok
           /\ matches' = Append(matches, NullCandidate(p))
    /\ n' = n + 1
    /\ UNCHANGED <<module_globals, raw_in, shopify_in, amazon_in,
                   no_name, threshold, confidence_levels,
                   shopify, amazon, zip_iter, score, confidence_level, final_df, pc,
                   row_a, row_b, calls>>

\* The score does not pass line 86: nothing is appended.
PairRejected ==
    /\ pc = "loop" /\ n < Len(Schedule(zip_iter))
    /\ LET r == PairScore(Schedule(zip_iter)[n + 1])
       IN  /\ r.ok /\ ~Accepts(r.v, threshold)
           /\ score' = r.v
    /\ n' = n + 1
    /\ UNCHANGED <<module_globals, raw_in, shopify_in, amazon_in,
                   no_name, threshold, confidence_levels,
                   shopify, amazon, zip_iter, confidence_level, matches, final_df,
                   pc, row_a, row_b, calls>>

\* The score passes line 86 and confidence_level is bound when line 95 reads
\* it (by this pass, or left over from an earlier one): the dict is appended.
PairRetained ==
    /\ pc = "loop" /\ n < Len(Schedule(zip_iter))
    /\ LET p == Schedule(zip_iter)[n + 1]
           r == PairScore(p)
           level == IF r.ok THEN FirstLevel(confidence_levels, r.v) ELSE "none"
       IN  /\ r.ok /\ Accepts(r.v, threshold)
           /\ score' = r.v
           /\ confidence_level' = IF level = "none" THEN confidence_level ELSE level
           /\ confidence_level' # "unbound"
           /\ matches' = Append(matches, Candidate(p, r.v, confidence_level'))
    /\ n' = n + 1
    /\ UNCHANGED <<module_globals, raw_in, shopify_in, amazon_in,
                   no_name, threshold, confidence_levels,
                   shopify, amazon, zip_iter, final_df, pc, row_a, row_b, calls>>

\* The score passes line 86, no level is reached and confidence_level was
\* never assigned: line 95 raises UnboundLocalError inside the try.
PairUnbound ==
    /\ pc = "loop" /\ n < Len(Schedule(zip_iter))
    /\ LET p == Schedule(zip_iter)[n + 1]
           r == PairScore(p)
       IN  /\ r.ok /\ Accepts(r.v, threshold)
           /\ FirstLevel(confidence_levels, r.v) = "none"
           /\ confidence_level = "unbound"
           /\ score' = r.v
           /\ matches' = Append(matches, NullCandidate(p))
    /\ n' = n + 1
    /\ UNCHANGED <<module_globals, raw_in, shopify_in, amazon_in,
                   no_name, threshold, confidence_levels,
                   shopify, amazon, zip_iter, confidence_level, final_df, pc, row_a,
                   row_b, calls>>

\* Line 106: the loops are over, pd.DataFrame(matches) is returned.
IdentifyReturn ==
    /\ pc = "loop" /\ n = Len(Schedule(zip_iter))
    /\ pc' = "stitch"
    /\ UNCHANGED <<module_globals, raw_in, shopify_in, amazon_in,
                   no_name, threshold, confidence_levels,
                   shopify, amazon, zip_iter, n, score, confidence_level, matches,
                   final_df, row_a, row_b, calls>>

---------------------------------------------------------------------------
(* stitch_identified_data and print_match_report, as generate_matches calls them *)

\* pandas gives the rows of a loaded source the index labels 0, 1, 2, ...
IndexLabel(i) == i - 1

\* Line 179: the row of the first source whose INDEX LABEL equals the
\* candidate's shopify_id (right_index=True); 0 when there is none and the
\* left merge fills the *_addy_token cells with NaN.
AddyTokenRow(table, id) ==
    IF \E i \in 1..Len(table) : IndexLabel(i) = id
    THEN CHOOSE i \in 1..Len(table) : IndexLabel(i) = id
    ELSE 0

\* Positions of the rows of a source whose id column holds an id, in table
\* order: the right-hand rows a left merge on that column joins to one
\* left-hand row; <<0>> (one row, cells NaN) when there is none.
RowsWithId(table, idcol, id) ==
    LET hits == {i \in 1..Len(table) : table[i][idcol] = id}
    IN  IF hits = {} THEN <<0>> ELSE Ascending(hits)

\* Lines 173-179 for one candidate: the rows the three left merges make of it.
MergedRows(shop, amzn, m) ==
    LET ss == RowsWithId(shop, "shopify_id", m.shopify_id)
        as == RowsWithId(amzn, "amazon_id", m.amazon_id)
    IN  [k \in 1..(Len(ss) * Len(as)) |->
            [score |-> m.score, shopify_id |-> m.shopify_id,
             amazon_id |-> m.amazon_id, confidence_level |-> m.confidence_level,
             shopify_row |-> ss[((k - 1) \div Len(as)) + 1],
             amazon_row |-> as[((k - 1) % Len(as)) + 1],
             addy_token_row |-> AddyTokenRow(shop, m.shopify_id)]]

\* The left merges with every source record that is in no candidate added as
\* a row of its own (an outer join).
RECURSIVE StitchedRowsOuter(_, _, _)
StitchedRowsOuter(shop, amzn, ms) ==
    IF ms = <<>>
    THEN [k \in 1..Len(shop) |->
            [score |-> -1, shopify_id |-> shop[k]["shopify_id"], amazon_id |-> 0,
             confidence_level |-> "null", shopify_row |-> k, amazon_row |-> 0,
             addy_token_row |-> k]]
    ELSE MergedRows(shop, amzn, Head(ms)) \o StitchedRowsOuter(shop, amzn, Tail(ms))

\* Lines 173-179: the rows of merged_df, in the order of matches.
RECURSIVE StitchedRows(_, _, _)
StitchedRows(shop, amzn, ms) ==
    IF ms = <<>> THEN <<>>
    ELSE MergedRows(shop, amzn, Head(ms)) \o StitchedRows(shop, amzn, Tail(ms))

\* A column of the stitched frame: <<name, suffix>>.
Column(name) == <<name, "">>

\* Columns of merged_df: the keys of the appended dicts, then (line 169) the
\* matchable columns of the first source suffixed _addy_token.
merged_columns ==
    <<Column("shopify_id"), Column("amazon_id"), Column("score"), Column("confidence_level")>>
        \o [i \in 1..Len(matchable_columns) |-> <<matchable_columns[i], "_addy_token">>]

\* Lines 182-184: score, then the other columns in their order.
StitchedColumns(cols) ==
    LET IsOther(c) == c # Column("score")
    IN  <<Column("score")>> \o SelectSeq(cols, IsOther)

\* Lines 154-158: the columns stitch_identified_data drops from each source.
columns_to_drop(nn) ==
    IF nn THEN Range(matchable_columns) \ name_fields ELSE Range(matchable_columns)

\* The no_name argument of stitch_identified_data in generate_matches and in
\* generate_matches_netsuite: not passed, so the default.
stitch_no_name == FALSE

\* The columns of a source frame; a frame left without rows (load_amazon_data
\* can drop them all) still has its id and every matchable column.
FrameColumns(table, idcol) ==
    IF table = <<>> THEN {idcol} \cup Range(matchable_columns) ELSE DOMAIN table[1]

\* Lines 161-162: DataFrame.drop(columns=...) raises KeyError unless every
\* label is a column of the frame.
DropSucceeds ==
    /\ columns_to_drop(stitch_no_name) \subseteq FrameColumns(shopify_in, "shopify_id")
    /\ columns_to_drop(stitch_no_name) \subseteq FrameColumns(amazon_in, "amazon_id")

\* Line 169: shopify[matchable_columns] raises KeyError on a missing column.
AddyColumnsPresent ==
    Range(matchable_columns) \subseteq FrameColumns(shopify_in, "shopify_id")

\* stitch_identified_data raises: on the drops of lines 161-162, on line 169,
\* or, pd.DataFrame([]) having no columns, on matches.merge(...,
\* on='shopify_id') at line 173.
StitchRaises ==
    /\ pc = "stitch"
    /\ (~DropSucceeds \/ ~AddyColumnsPresent \/ matches = <<>>)
    /\ pc' = "raised"
    /\ UNCHANGED <<module_globals, raw_in, shopify_in, amazon_in,
                   no_name, threshold, confidence_levels,
                   shopify, amazon, zip_iter, n, score, confidence_level, matches,
                   final_df, row_a, row_b, calls>>

StitchReturns ==
    /\ pc = "stitch"
    /\ DropSucceeds /\ AddyColumnsPresent /\ matches # <<>>
    /\ final_df' = [columns |-> StitchedColumns(merged_columns),
                    rows |-> StitchedRows(shopify_in, amazon_in, matches)]
    /\ pc' = "report"
    /\ UNCHANGED <<module_globals, raw_in, shopify_in, amazon_in,
                   no_name, threshold, confidence_levels,
                   shopify, amazon, zip_iter, n, score, confidence_level, matches,
                   row_a, row_b, calls>>

\* print_match_report reads matches['shopify_id'] (line 194, KeyError on a
\* frame without columns) and divides by the sources' unique id counts
\* (lines 203-204); then generate_matches returns final_df.
print_match_report ==
    /\ pc = "report"
    /\ pc' = IF matches = <<>> \/ Len(shopify_in) = 0 \/ Len(amazon_in) = 0
             THEN "raised" ELSE "done"
    /\ UNCHANGED <<module_globals, raw_in, shopify_in, amazon_in,
                   no_name, threshold, confidence_levels,
                   shopify, amazon, zip_iter, n, score, confidence_level, matches,
                   final_df, row_a, row_b, calls>>

---------------------------------------------------------------------------
(* The top-level run *)

\* final_df before stitch_identified_data has returned.
no_frame == [columns |-> <<>>, rows |-> <<>>]

NotCalled == [ok |-> FALSE, v |-> -1]

Init ==
    /\ module_globals = module_globals_at_import
    /\ raw_in = <<>>
    /\ shopify_in \in ShopifyTables
    /\ amazon_in \in AmazonTables
    /\ no_name \in BOOLEAN
    /\ threshold \in Thresholds
    /\ confidence_levels = module_globals.confidence_levels
    /\ shopify = <<>>
    /\ amazon = <<>>
    /\ zip_iter = <<>>
    /\ n = 0
    /\ score = 0
    /\ confidence_level = "unbound"
    /\ matches = <<>>
    /\ final_df = no_frame
    /\ pc = "identify"
    /\ row_a = <<>>
    /\ row_b = <<>>
    /\ calls = [default_weights |-> NotCalled, no_name_weights |-> NotCalled]

Next ==
    \/ IdentifyStart
    \/ PairRaises
    \/ PairRejected
    \/ PairRetained
    \/ PairUnbound
    \/ IdentifyReturn
    \/ StitchRaises
    \/ StitchReturns
    \/ print_match_report

Spec == Init /\ [][Next]_vars

---------------------------------------------------------------------------
(* calculate_match_score called on one pair of rows, with either table *)

\* A row that also carries a house_number column.
WithHouseNumber(row, h) ==
    [c \in DOMAIN row \cup {"house_number"} |-> IF c = "house_number" THEN h ELSE row[c]]

ScoreRowsShopify ==
    LET rows == { Row([RefFields EXCEPT !.street_type = st, !.unit_type = ut,
                                        !.unit_number = un]) :
                    st \in {AB, None}, ut \in {AB, Empty}, un \in {AB, None} }
    IN  rows \cup {WithHouseNumber(r, N12) : r \in rows}

ScoreRowsAmazon ==
    LET rows ==
            { Row([first_name |-> fn, last_name |-> ln, city |-> ci, state |-> sa,
                   address_number |-> an, street_name |-> sn, street_type |-> st,
                   unit_type |-> ut, unit_number |-> un, zip_cleaned |-> Z1]) :
                fn \in {AB, AC, Empty}, ln \in {AB, AC, None}, ci \in {AB, A1},
                sa \in {AB, AC}, an \in {N12, N99}, sn \in {AB, NaN},
                st \in {AB, None}, ut \in {AB, Empty}, un \in {AB, Empty, None} }
    IN  rows \cup {WithHouseNumber(r, h) : r \in rows, h \in {N12, N99}}

InitScore ==
    /\ module_globals = module_globals_at_import
    /\ raw_in = <<>>
    /\ row_a \in ScoreRowsShopify
    /\ row_b \in ScoreRowsAmazon
    /\ calls = [default_weights |-> NotCalled, no_name_weights |-> NotCalled]
    /\ shopify_in = <<>>
    /\ amazon_in = <<>>
    /\ no_name = FALSE
    /\ threshold = potential_match_score_threshold
    /\ confidence_levels = confidence_levels_default
    /\ shopify = <<>>
    /\ amazon = <<>>
    /\ zip_iter = <<>>
    /\ n = 0
    /\ score = 0
    /\ confidence_level = "unbound"
    /\ matches = <<>>
    /\ final_df = no_frame
    /\ pc = "direct"

CallDefault ==
    /\ pc = "direct"
    /\ calls.default_weights = NotCalled
    /\ calls' = [calls EXCEPT
                    !.default_weights = calculate_match_score(row_a, row_b, module_globals.default_weights)]
    /\ UNCHANGED <<module_globals, raw_in, shopify_in, amazon_in,
                   no_name, threshold, confidence_levels,
                   shopify, amazon, zip_iter, n, score, confidence_level, matches,
                   final_df, pc, row_a, row_b>>

CallNoName ==
    /\ pc = "direct"
    /\ calls.no_name_weights = NotCalled
    /\ calls' = [calls EXCEPT
                    !.no_name_weights = calculate_match_score(row_a, row_b, module_globals.no_name_weights)]
    /\ UNCHANGED <<module_globals, raw_in, shopify_in, amazon_in,
                   no_name, threshold, confidence_levels,
                   shopify, amazon, zip_iter, n, score, confidence_level, matches,
                   final_df, pc, row_a, row_b>>

NextScore == CallDefault \/ CallNoName

SpecScore == InitScore /\ [][NextScore]_vars

---------------------------------------------------------------------------
(* The loaders' zip_cleaned, and identify_matches on what they return *)

US == Str(<<"U", "S">>)
CA == Str(<<"C", "A">>)
GB == Str(<<"G", "B">>)

\* str.isdigit and str.isalnum on the characters that occur.
IsDigit(c) == c \in {"0", "1", "2", "9"}
IsAlnum(c) == IsDigit(c) \/ c \in {"A", "B", "K", "N", "a", "n"}

\* str.upper, per character.
UpperChar(c) == IF c = "a" THEN "A" ELSE IF c = "n" THEN "N" ELSE c

Upper(chars) == [i \in 1..Len(chars) |-> UpperChar(chars[i])]

\* str.strip: leading and trailing blanks removed.
RECURSIVE Strip(_)
Strip(chars) ==
    IF chars = <<>> THEN <<>>
    ELSE IF Head(chars) = " " THEN Strip(Tail(chars))
    ELSE IF chars[Len(chars)] = " " THEN Strip(SubSeq(chars, 1, Len(chars) - 1))
    ELSE chars

\* row['zip'][:5].
FirstFive(chars) == SubSeq(chars, 1, IF Len(chars) < 5 THEN Len(chars) ELSE 5)

\* standardize_canadian_zip: the alphanumeric characters when there are six
\* of them, else np.nan.
standardize_canadian_zip(chars) ==
    LET standardized_zip == SelectSeq(chars, IsAlnum)
    IN  IF Len(standardized_zip) = 6 THEN Str(standardized_zip) ELSE NaN

\* Lines 216-232 / 296-314: the zip_cleaned column before tokenization.
zip_cleaned_column(country_code, zip) ==
    IF country_code = CA THEN standardize_canadian_zip(zip.s)
    ELSE IF country_code = US THEN Str(FirstFive(zip.s))
    ELSE zip

\* row.astype(str): a NaN cell becomes the string 'nan'.
AsStr(cell) == IF cell.kind = "NaN" THEN Str(<<"n", "a", "n">>) ELSE cell

\* standardize_address_*: row['zip_cleaned'].upper().strip() if
\* row['zip_cleaned'] else None, on the row after astype(str).
standardized_zip_cleaned(cell) ==
    IF AsStr(cell).s # <<>> THEN Str(Strip(Upper(AsStr(cell).s))) ELSE None

\* Raw postal codes.
Z1Plus4 == Str(<<"9", "0", "2", "1", "0", "-", "1">>)
ZShort == Str(<<"9", "0", "2">>)
ZLetter == Str(<<"K", "0", "2", "1", "0">>)
ZCanada == Str(<<"K", "1", "A", " ", "0", "B", "1">>)
ZCanadaCleaned == Str(<<"K", "1", "A", "0", "B", "1">>)
ZCanadaShort == Str(<<"K", "1", "A", "0", "B">>)
ZNan == Str(<<"N", "A", "N">>)

\* Records of a source file: base is the position in AmazonPool of the
\* record's other fields (1: all equal to the reference record, 2: 58.00
\* against it).
RawPool ==
    << [base |-> 1, country_code |-> US, zip |-> Z1],
       [base |-> 2, country_code |-> US, zip |-> Z1],
       [base |-> 1, country_code |-> US, zip |-> Z1Plus4],
       [base |-> 1, country_code |-> US, zip |-> ZShort],
       [base |-> 1, country_code |-> US, zip |-> ZLetter],
       [base |-> 1, country_code |-> US, zip |-> Empty],
       [base |-> 1, country_code |-> CA, zip |-> ZCanada],
       [base |-> 1, country_code |-> CA, zip |-> ZCanadaShort],
       [base |-> 1, country_code |-> GB, zip |-> ZLetter] >>

RawTables == Tables(RawPool, MaxRowsAmazon)

\* The first source as its cache holds it: one record, with each blocking key
\* a loaded record can have.
CachedShopifyTables ==
    { WithIds(<<Row([RefFields EXCEPT !.zip_cleaned = z])>>, "shopify_id", 100) :
        z \in {Z1, ZShort, ZLetter, ZCanadaCleaned, ZNan} }

\* The loaded row of a raw record: its fields, country_code and zip_cleaned.
LoadedRow(r, cell) ==
    [AmazonPool[r.base] EXCEPT !["country_code"] = r.country_code,
                               !["zip_cleaned"] = standardized_zip_cleaned(cell)]

\* load_amazon_data, lines 216-266: rows of Canadian records whose
\* zip_cleaned is null are dropped (line 235), the others tokenized.
AmazonLoaded(raws) ==
    LET Kept(r) == ~(r.country_code = CA
                     /\ zip_cleaned_column(r.country_code, r.zip).kind = "NaN")
        kept == SelectSeq(raws, Kept)
    IN  [i \in 1..Len(kept) |->
            LoadedRow(kept[i], zip_cleaned_column(kept[i].country_code, kept[i].zip))]

\* load_netsuite_data, lines 296-334: no row is dropped for its zip_cleaned,
\* and the frame has no name columns.
NetsuiteLoaded(raws) ==
    [i \in 1..Len(raws) |->
        LET row == LoadedRow(raws[i], zip_cleaned_column(raws[i].country_code, raws[i].zip))
        IN  [c \in DOMAIN row \ name_fields |-> row[c]]]

\* generate_matches, lines 15-16 of runner.py.
load_amazon_data ==
    /\ pc = "load" /\ ~no_name
    /\ amazon_in' = WithIds(AmazonLoaded(raw_in), "amazon_id", 200)
    /\ pc' = "identify"
    /\ UNCHANGED <<module_globals, raw_in, shopify_in, no_name, threshold,
                   confidence_levels, shopify, amazon, zip_iter, n, score,
                   confidence_level, matches, final_df, row_a, row_b, calls>>

\* generate_matches_netsuite, lines 23-24 of runner.py.
load_netsuite_data ==
    /\ pc = "load" /\ no_name
    /\ amazon_in' = WithIds(NetsuiteLoaded(raw_in), "amazon_id", 200)
    /\ pc' = "identify"
    /\ UNCHANGED <<module_globals, raw_in, shopify_in, no_name, threshold,
                   confidence_levels, shopify, amazon, zip_iter, n, score,
                   confidence_level, matches, final_df, row_a, row_b, calls>>

InitLoad ==
    /\ module_globals = module_globals_at_import
    /\ raw_in \in RawTables
    /\ shopify_in \in CachedShopifyTables
    /\ amazon_in = <<>>
    /\ no_name \in BOOLEAN
    /\ threshold = module_globals.potential_match_score_threshold
    /\ confidence_levels = module_globals.confidence_levels
    /\ shopify = <<>>
    /\ amazon = <<>>
    /\ zip_iter = <<>>
    /\ n = 0
    /\ score = 0
    /\ confidence_level = "unbound"
    /\ matches = <<>>
    /\ final_df = no_frame
    /\ pc = "load"
    /\ row_a = <<>>
    /\ row_b = <<>>
    /\ calls = [default_weights |-> NotCalled, no_name_weights |-> NotCalled]

\* The loaders, then the run as the runner makes it (default threshold and
\* tiers); every cell the loaders leave is a string or None.
NextLoad ==
    \/ load_amazon_data
    \/ load_netsuite_data
    \/ IdentifyStart
    \/ PairRejected
    \/ PairRetained
    \/ IdentifyReturn
    \/ StitchRaises
    \/ StitchReturns
    \/ print_match_report

SpecLoad == InitLoad /\ [][NextLoad]_vars

---------------------------------------------------------------------------
(* Vocabulary of the properties *)

\* The pairs the loops of identify_matches have processed so far.
Started == pc \in {"loop", "stitch", "report", "done", "raised"}
Finished == pc \in {"stitch", "report", "done", "raised"}
Processed == IF Started THEN SubSeq(Schedule(zip_iter), 1, n) ELSE <<>>

\* Positions in matches of the dicts appended for a pair of row positions.
EntriesFor(p) ==
    {k \in 1..Len(matches) :
        /\ matches[k].shopify_id = shopify[p[1]]["shopify_id"]
        /\ matches[k].amazon_id = amazon[p[2]]["amazon_id"]}

IsNull(m) == m.score = null_score /\ m.confidence_level = "null"

\* Edit-similarity ratio of the two records' address_number values.
AddressNumberRatio(p) ==
    fuzz_ratio(shopify[p[1]]["address_number"], amazon[p[2]]["address_number"])

\* Pairs of row positions whose zip_cleaned is the same non-empty string.
SameZip(i, j) ==
    /\ shopify[i]["zip_cleaned"] = amazon[j]["zip_cleaned"]
    /\ shopify[i]["zip_cleaned"].kind = "str"
    /\ shopify[i]["zip_cleaned"].s # <<>>

---------------------------------------------------------------------------
(* C1 *)

\* C1: every pair identify_matches scores whose address_number values have an
\* edit-similarity ratio below 0.70 gets the score 0 and is never retained as
\* a candidate.
C1_VetoOnAddressNumber ==
    \A k \in 1..Len(Processed) :
        LET p == Processed[k]
            ar == AddressNumberRatio(p)
        IN  (ar.ok /\ ar.v < 70 /\ PairScore(p).ok) =>
                /\ PairScore(p).v = 0
                /\ EntriesFor(p) = {}

---------------------------------------------------------------------------
(* C2 *)

ScenarioFields ==
    {"first_name", "last_name", "street_name", "street_type", "city", "state",
     "unit_type", "unit_number", "address_number", "house_number"}

IdenticalStrings(a, b) ==
    \A f \in ScenarioFields : Get(a, f).kind = "str" /\ Get(a, f) = Get(b, f)

\* C2: two records whose name, street, city, state, unit and house-number
\* strings are all identical score exactly 100.00 under default_weights.
C2_IdenticalScores100 ==
    (pc = "direct" /\ calls.default_weights # NotCalled /\ IdenticalStrings(row_a, row_b))
        => calls.default_weights = Ok(10000)

---------------------------------------------------------------------------
(* C3 *)

---------------------------------------------------------------------------
(* C4 *)

\* C4: a candidate is in the output only if its two records have equal
\* zip_cleaned values and that value is non-empty.
C4_CandidatesShareNonEmptyZip ==
    Started =>
        \A k \in 1..Len(matches) :
            \A i \in 1..Len(shopify), j \in 1..Len(amazon) :
                (/\ shopify[i]["shopify_id"] = matches[k].shopify_id
                 /\ amazon[j]["amazon_id"] = matches[k].amazon_id) => SameZip(i, j)

---------------------------------------------------------------------------
(* C5 *)

\* The tier whose range holds a score, as the claim states the ranges.
TierOf(sc) ==
    IF sc >= 9000 THEN "near-exact"
    ELSE IF sc >= 8000 THEN "high"
    ELSE IF sc >= 7000 THEN "medium"
    ELSE "low"

DefaultConfiguration ==
    /\ threshold = potential_match_score_threshold
    /\ confidence_levels = confidence_levels_default

\* C5: with the default tier table and threshold every candidate with a
\* non-null score is above 60 and carries the tier of its own score: >= 90
\* near-exact, [80, 90) high, [70, 80) medium, (60, 70) low.
C5_TierOfOwnScore ==
    DefaultConfiguration =>
        \A k \in 1..Len(matches) :
            ~IsNull(matches[k]) =>
                /\ matches[k].score > potential_match_score_threshold
                /\ matches[k].confidence_level = TierOf(matches[k].score)

\* A candidate scoring exactly 90.00 is near-exact and one scoring 89.99 is high.
C5_Witness ==
    /\ DefaultConfiguration
    /\ \E k \in 1..Len(matches) :
          matches[k].score = 9000 /\ matches[k].confidence_level = "near-exact"
    /\ \E k \in 1..Len(matches) :
          matches[k].score = 8999 /\ matches[k].confidence_level = "high"

---------------------------------------------------------------------------
(* C6 *)

\* C6: whatever the pair of records and the table, a value
\* calculate_match_score returns lies in [0, 100].
C6_ScoreInRange ==
    /\ calls.default_weights.ok =>
          (calls.default_weights.v >= 0 /\ calls.default_weights.v <= 10000)
    /\ calls.no_name_weights.ok =>
          (calls.no_name_weights.v >= 0 /\ calls.no_name_weights.v <= 10000)

\* Both tables were applied to one pair of records and returned the top of
\* their ranges.
C6_Witness ==
    calls.default_weights = Ok(9400) /\ calls.no_name_weights = Ok(8571)

---------------------------------------------------------------------------
(* C7 *)

\* The score identify_matches computes for rows i and j.
ScoreOf(i, j) == calculate_match_score(shopify[i], amazon[j], SelectedWeights(no_name))

---------------------------------------------------------------------------
(* C8 *)

Raises(p) == ~PairScore(p).ok

\* What the loops append for a sequence of pairs when the pairs whose scoring
\* raises are left out of it: from position i, with confidence_level = level.
RECURSIVE Replay(_, _, _, _)
Replay(pairs, i, level, acc) ==
    IF i > Len(pairs) THEN acc
    ELSE LET p == pairs[i]
             r == PairScore(p)
             reached == FirstLevel(confidence_levels, r.v)
             bound == IF reached = "none" THEN level ELSE reached
         IN  IF ~r.ok \/ ~(r.v > threshold) THEN Replay(pairs, i + 1, level, acc)
             ELSE IF bound = "unbound"
                  THEN Replay(pairs, i + 1, level, Append(acc, NullCandidate(p)))
             ELSE Replay(pairs, i + 1, bound, Append(acc, Candidate(p, r.v, bound)))

\* The dicts of matches that were not appended for a pair whose scoring raised.
WithoutFailures ==
    LET done == Processed
        failed == {k \in 1..Len(done) : Raises(done[k])}
        Kept(m) ==
            ~\E k \in failed :
                /\ m.shopify_id = shopify[done[k][1]]["shopify_id"]
                /\ m.amazon_id = amazon[done[k][2]]["amazon_id"]
    IN  SelectSeq(matches, Kept)

\* C8: a pair whose scoring raises is recorded once, with null score and tier;
\* the other dicts of the result are exactly those the loops produce without
\* that pair, earlier and later ones alike; and the loops run to the last pair.
C8_FailureContained ==
    LET done == Processed
    IN  /\ \A k \in 1..Len(done) :
              Raises(done[k]) =>
                  LET entries == EntriesFor(done[k])
                  IN  /\ Cardinality(entries) = 1
                      /\ \A e \in entries : IsNull(matches[e])
        /\ Started => WithoutFailures = Replay(done, 1, "unbound", <<>>)
        /\ Finished => n = Len(Schedule(zip_iter))

\* A pair's scoring raised between two retained pairs: the result holds a
\* candidate, then the null dict, then a candidate.
C8_Witness ==
    \E k \in 2..(Len(matches) - 1) :
        /\ IsNull(matches[k])
        /\ \E q \in 1..Len(Processed) : Raises(Processed[q]) /\ k \in EntriesFor(Processed[q])
        /\ ~IsNull(matches[k - 1])
        /\ ~IsNull(matches[k + 1])

---------------------------------------------------------------------------
(* C9 *)

\* C9: the top-level run never raises.
C9_RunNeverRaises == pc # "raised"

---------------------------------------------------------------------------
(* C10 *)

SameNonNameFields(a, b) ==
    /\ DOMAIN a = DOMAIN b
    /\ \A c \in DOMAIN a \ name_fields : a[c] = b[c]

\* C10: for two records identical in all non-name fields and differing in
\* first_name or last_name, the score under no_name_weights is strictly
\* greater than the score under default_weights.
C10_NoNameScoresHigher ==
    (/\ pc = "direct"
     /\ calls.default_weights.ok /\ calls.no_name_weights.ok
     /\ SameNonNameFields(row_a, row_b)
     /\ (row_a["first_name"] # row_b["first_name"] \/ row_a["last_name"] # row_b["last_name"]))
        => calls.no_name_weights.v > calls.default_weights.v

---------------------------------------------------------------------------
(* C11 *)

\* Sum of the weights of a table, in units of 10^-4.
RECURSIVE SumOfWeights(_, _)
SumOfWeights(weights, i) ==
    IF i > Len(weights) THEN 0 ELSE weights[i][2] + SumOfWeights(weights, i + 1)

\* The two rows hold the same string under every key of the table.
IdenticalOnWeighted(a, b, weights) ==
    \A f \in Keys(weights) : Get(a, f).kind = "str" /\ Get(a, f) = Get(b, f)

\* C11: the weights of default_weights sum to exactly 1.0 and those of
\* no_name_weights to 1.0 within 0.001, so a pair identical on every weighted
\* field scores 100 under default_weights and at least 99.9 under
\* no_name_weights.
C11_TablesNormalised ==
    /\ SumOfWeights(default_weights, 1) = 10000
    /\ SumOfWeights(no_name_weights, 1) \in 9990..10010
    /\ (calls.default_weights # NotCalled /\ IdenticalOnWeighted(row_a, row_b, default_weights))
          => calls.default_weights = Ok(10000)
    /\ (calls.no_name_weights # NotCalled /\ IdenticalOnWeighted(row_a, row_b, no_name_weights))
          => (calls.no_name_weights.ok /\ calls.no_name_weights.v >= 9990)

---------------------------------------------------------------------------
(* C12 *)

\* The entries of a table for the fields compared by edit ratio.
FuzzyEntries(weights) ==
    LET IsFuzzy(e) == e[1] \notin exact_match_fields
    IN  SelectSeq(weights, IsFuzzy)

\* Full weight for each exact-match field of the table on which the rows hold
\* identical values, nothing for the others (times 100, as the ratios are).
RECURSIVE AllOrNothing(_, _, _, _)
AllOrNothing(a, b, weights, i) ==
    IF i > Len(weights) THEN 0
    ELSE (IF weights[i][1] \in exact_match_fields /\ Get(a, weights[i][1]) = Get(b, weights[i][1])
          THEN 100 * weights[i][2] ELSE 0)
         + AllOrNothing(a, b, weights, i + 1)

ExactFieldsAreStrings(a, b) ==
    \A f \in exact_match_fields : Get(a, f).kind = "str" /\ Get(b, f).kind = "str"

\* What the claim makes of a call: the edit-ratio fields' weighted sum plus
\* the all-or-nothing contributions, vetoed and rounded as the code does.
ExpectedAllOrNothing(a, b, weights) ==
    LET fuzzy == WeightedSum(a, b, FuzzyEntries(weights), 1)
        house == HouseNumScore(a, b, weights)
    IN  IF ~fuzzy.ok \/ ~house.ok THEN Raised
        ELSE IF house.v < 70 THEN Ok(0)
        ELSE Ok(RoundHalfEven(fuzzy.v + AllOrNothing(a, b, weights, 1), 100))

\* C12: each of street_type, state and unit_type adds its full weight to the
\* weighted sum when the two values are identical strings (two empty strings
\* included) and nothing when they differ; there is no partial credit.
C12_ExactFieldsAllOrNothing ==
    ExactFieldsAreStrings(row_a, row_b) =>
        /\ calls.default_weights # NotCalled =>
              calls.default_weights = ExpectedAllOrNothing(row_a, row_b, default_weights)
        /\ calls.no_name_weights # NotCalled =>
              calls.no_name_weights = ExpectedAllOrNothing(row_a, row_b, no_name_weights)

\* Both tables were applied to a pair with unit_type empty on both sides,
\* street_type identical and state 'AB' against 'AC', and returned a score.
C12_Witness ==
    /\ row_a["unit_type"] = Empty /\ row_b["unit_type"] = Empty
    /\ row_a["street_type"] = AB /\ row_b["street_type"] = AB
    /\ row_a["state"] = AB /\ row_b["state"] = AC
    /\ calls.default_weights.ok /\ calls.default_weights.v > 0
    /\ calls.no_name_weights.ok /\ calls.no_name_weights.v > 0

---------------------------------------------------------------------------
(* C13 *)

\* stitch_identified_data has returned final_df.
StitchReturned == pc \in {"report", "done"}

\* The source records that are in no candidate.
UnmatchedShopify == {i \in 1..Len(shopify_in) :
                        \A k \in 1..Len(matches) :
                            matches[k].shopify_id # shopify_in[i]["shopify_id"]}
UnmatchedAmazon == {j \in 1..Len(amazon_in) :
                        \A k \in 1..Len(matches) :
                            matches[k].amazon_id # amazon_in[j]["amazon_id"]}

\* C13: with record ids unique within each source, the stitched output has
\* exactly one row per candidate, in order and with the candidate's ids, score
\* and tier, no row for a source record that is in no candidate, and score as
\* its first column.
C13_OneRowPerCandidate ==
    StitchReturned =>
        /\ Len(final_df.rows) = Len(matches)
        /\ \A k \in 1..Len(final_df.rows) :
              /\ final_df.rows[k].shopify_id = matches[k].shopify_id
              /\ final_df.rows[k].amazon_id = matches[k].amazon_id
              /\ final_df.rows[k].score = matches[k].score
              /\ final_df.rows[k].confidence_level = matches[k].confidence_level
              /\ final_df.rows[k].shopify_row \notin UnmatchedShopify
              /\ final_df.rows[k].amazon_row \notin UnmatchedAmazon
        /\ final_df.columns[1] = Column("score")

\* The output was returned for two candidates while a record of the first
\* source is in no candidate.
C13_Witness ==
    /\ StitchReturned
    /\ Len(final_df.rows) = 2
    /\ UnmatchedShopify # {}

---------------------------------------------------------------------------
(* C14 *)

\* C14: no step of identify_matches, calculate_match_score,
\* stitch_identified_data or print_match_report changes the two input
\* collections, the module-level weight tables, threshold and tier table, or
\* the threshold and tier table passed in.
C14_InputsAndGlobalsUnchanged ==
    [][/\ shopify_in' = shopify_in
       /\ amazon_in' = amazon_in
       /\ module_globals' = module_globals
       /\ threshold' = threshold
       /\ confidence_levels' = confidence_levels]_vars

\* A no-name run has finished with candidates: the columns were selected
\* (the locals differ from the inputs), pairs were scored and stitched, and the
\* module-level names are as at import.
C14_Witness ==
    /\ pc = "done"
    /\ no_name
    /\ shopify # shopify_in
    /\ Len(matches) >= 2
    /\ Len(final_df.rows) >= 2
    /\ module_globals = module_globals_at_import

---------------------------------------------------------------------------
(* C15 *)

\* C15: whatever the threshold and tier table, a scored pair whose score is
\* below every tier's minimum is dropped: nothing is appended for it, neither
\* a dict with the tier of an earlier pair nor one with a null score.
C15_BelowEveryTierDropped ==
    LET done == Processed
    IN  \A k \in 1..Len(done) :
            LET r == PairScore(done[k])
            IN  (r.ok /\ FirstLevel(confidence_levels, r.v) = "none") =>
                    EntriesFor(done[k]) = {}

---------------------------------------------------------------------------
(* C16 *)

\* C16: the *_addy_token columns of every stitched row are those of the
\* record of the first source whose shopify_id is the row's shopify_id.
C16_AddyTokensOfOwnRecord ==
    StitchReturned =>
        \A k \in 1..Len(final_df.rows) :
            LET t == final_df.rows[k].addy_token_row
            IN  /\ t \in 1..Len(shopify_in)
                /\ shopify_in[t]["shopify_id"] = final_df.rows[k].shopify_id

---------------------------------------------------------------------------
(* C17 *)

\* What the loops append for a sequence of pairs, from position i, entered
\* with confidence_level = level.
RECURSIVE Appended(_, _, _, _)
Appended(pairs, i, level, acc) ==
    IF i > Len(pairs) THEN acc
    ELSE LET p == pairs[i]
             r == PairScore(p)
             reached == FirstLevel(confidence_levels, r.v)
             bound == IF reached = "none" THEN level ELSE reached
         IN  IF ~r.ok THEN Appended(pairs, i + 1, level, Append(acc, NullCandidate(p)))
             ELSE IF ~(r.v > threshold) THEN Appended(pairs, i + 1, level, acc)
             ELSE IF bound = "unbound"
                  THEN Appended(pairs, i + 1, level, Append(acc, NullCandidate(p)))
             ELSE Appended(pairs, i + 1, bound, Append(acc, Candidate(p, r.v, bound)))

\* The candidates of each block of an order, each block processed on its own.
RECURSIVE BlockByBlock(_)
BlockByBlock(order) ==
    IF order = <<>> THEN <<>>
    ELSE Appended(BlockPairs(Head(order)), 1, "unbound", <<>>) \o BlockByBlock(Tail(order))

\* Two sequences hold the same elements the same number of times.
SameMultiset(s, t) ==
    \A m \in Range(s) \cup Range(t) :
        Cardinality({k \in 1..Len(s) : s[k] = m}) = Cardinality({k \in 1..Len(t) : t[k] = m})

\* C17: the candidates identify_matches returns are, as a multiset, those
\* each shared postal code's block yields when processed on its own, whatever
\* the order in which the postal codes are iterated and whatever the other
\* blocks hold.
C17_BlocksIndependent ==
    Finished => SameMultiset(matches, BlockByBlock(zip_iter))

---------------------------------------------------------------------------
(* C18 *)

\* A row with '' in place of every None.
NoneAsEmpty(row) == [c \in DOMAIN row |-> IF row[c] = None THEN Empty ELSE row[c]]

\* No cell read under a key of the table is NaN.
NoNaN(a, b, weights) ==
    \A f \in Keys(weights) : Get(a, f).kind # "NaN" /\ Get(b, f).kind # "NaN"

\* C18: calculate_match_score returns a number, and the number it returns for
\* the same records with '' in place of every None, whichever weighted fields
\* the records lack, hold None for, or hold '' for.
C18_MissingScoredAsEmpty ==
    /\ (calls.default_weights # NotCalled /\ NoNaN(row_a, row_b, default_weights)) =>
          /\ calls.default_weights.ok
          /\ calls.default_weights =
                calculate_match_score(NoneAsEmpty(row_a), NoneAsEmpty(row_b), default_weights)
    /\ (calls.no_name_weights # NotCalled /\ NoNaN(row_a, row_b, no_name_weights)) =>
          /\ calls.no_name_weights.ok
          /\ calls.no_name_weights =
                calculate_match_score(NoneAsEmpty(row_a), NoneAsEmpty(row_b), no_name_weights)

---------------------------------------------------------------------------
(* C19 *)

FiveDigits(cell) ==
    cell.kind = "str" /\ Len(cell.s) = 5 /\ \A i \in 1..Len(cell.s) : IsDigit(cell.s[i])
SixAlphanumerics(cell) ==
    cell.kind = "str" /\ Len(cell.s) = 6 /\ \A i \in 1..Len(cell.s) : IsAlnum(cell.s[i])

\* C19: the loaded record of every candidate has a zip_cleaned in normal
\* form: exactly 5 digits for a US record, exactly 6 alphanumeric characters
\* for a Canadian one; a record that cannot be brought to it is in no candidate.
C19_CandidatesHaveNormalZip ==
    \A k \in 1..Len(matches) :
        \A j \in 1..Len(amazon_in) :
            amazon_in[j]["amazon_id"] = matches[k].amazon_id =>
                /\ amazon_in[j]["country_code"] = US => FiveDigits(amazon_in[j]["zip_cleaned"])
                /\ amazon_in[j]["country_code"] = CA =>
                      SixAlphanumerics(amazon_in[j]["zip_cleaned"])

---------------------------------------------------------------------------
(* C20 *)

\* A record with every name field set to a value, and without its name columns.
Renamed(row, v) == [c \in DOMAIN row |-> IF c \in name_fields THEN v ELSE row[c]]
WithoutNames(row) == [c \in DOMAIN row \ name_fields |-> row[c]]

\* The input record and what changes of its name fields make of it.
NameVariants(row) ==
    {row, WithoutNames(row), Renamed(row, CC), Renamed(row, NaN)}

\* C20: when identify_matches returns with no_name = True, every pair was
\* scored with no_name_weights, its score is the one the input records get
\* under that table whatever their name fields hold (or without the name
\* columns), and the result consists of the dicts those scores yield.
C20_NamesHaveNoInfluence ==
    (no_name /\ pc = "stitch") =>
        LET done == Processed
        IN  /\ \A k \in 1..Len(done) :
                  \A a \in NameVariants(shopify_in[done[k][1]]) :
                      \A b \in NameVariants(amazon_in[done[k][2]]) :
                          PairScore(done[k]) = calculate_match_score(a, b, no_name_weights)
            /\ matches = Appended(done, 1, "unbound", <<>>)

\* A no-name run retained, at 85.71, a pair of records whose first names differ.
C20_Witness ==
    /\ no_name /\ Finished
    /\ \E i \in 1..Len(shopify_in), j \in 1..Len(amazon_in) :
          /\ shopify_in[i]["first_name"] # amazon_in[j]["first_name"]
          /\ \E k \in 1..Len(matches) :
                /\ matches[k].shopify_id = shopify_in[i]["shopify_id"]
                /\ matches[k].amazon_id = amazon_in[j]["amazon_id"]
                /\ matches[k].score = 8571

---------------------------------------------------------------------------
(* C21 *)

\* C21: in generate_matches_netsuite, on a source without name columns, the
\* columns stitch_identified_data drops from each source are columns that
\* source has, and with candidates in hand the run does not raise.
C21_NetsuiteRunCompletes ==
    (no_name /\ Finished) =>
        /\ columns_to_drop(stitch_no_name) \subseteq FrameColumns(shopify_in, "shopify_id")
        /\ columns_to_drop(stitch_no_name) \subseteq FrameColumns(amazon_in, "amazon_id")
        /\ matches # <<>> => pc # "raised"

=============================================================================
